---- MODULE Spec2Model ----
(***************************************************************************)
(* Provisioning-state-transition drivers of terraform-provider-ironic.     *)
(*                                                                         *)
(* Two drivers are modelled, both entered through                          *)
(* ChangeProvisionStateToTarget:                                           *)
(*   - the legacy driver, provisionStateWorkflow (ironic/workflow.go,      *)
(*     lines 1-409);                                                       *)
(*   - the table-driven driver, provisionWorkflow (unnamed/part_005).      *)
(* The remote service is the environment: it owns the node, answers each   *)
(* transition request with success, conflict (HTTP 409) or a rejection,    *)
(* and moves the node out of transient states on its own.                  *)
(*                                                                         *)
(* Two further specifications share the variables:                         *)
(*   - WaitSpec, a call of WaitForTargetProvisionState (part_005);         *)
(*   - ClientsSpec, concurrent callers of Clients.GetIronicClient and      *)
(*     Clients.GetInspectorClient (ironic/clients.go, unnamed/part_007).   *)
(***************************************************************************)
EXTENDS Integers, Sequences, FiniteSets, TLC

VARIABLES
    driver,            \* "legacy" | "table": which ChangeProvisionStateToTarget runs
    node,              \* provision state of the node on the remote service
    pc,                \* position of the driver
    target,            \* workflow.target / w.target of the running workflow
    cleanSteps,        \* the cleanSteps argument: "nil" | "empty" | "steps"
    cur,               \* workflow.node.ProvisionState / currentState ("" before any read)
    attempt,           \* execute(): loop variable attempt
    retryNumber,       \* provisionStateWorkflow.retryNumber
    operationStarted,  \* provisionStateWorkflow.operationStarted
    outer,             \* saved workflow of toClean/toInspect while the nested manage run is active
    result,            \* "" while running, "ok" for nil, else the kind of error returned
    ctxDone,           \* the caller's context is cancelled
    timedOut,          \* execute(): the maxTimeout timer has fired
    start,             \* history: node state when the invocation began
    tickObs,           \* history: state read by the last loop iteration ("" if none)
    tickAct,           \* history: action requested by the last loop iteration ("" if none)
    tickCall,          \* history: summary of the last changeProvisionState call (see Summary)
    tickOpts,          \* history: the ProvisionStateOpts of the last request sent (NoOpts if none)
    issued,            \* history: actions requested so far, immediate repeats collapsed
    seen,              \* history: stable states read so far by this invocation
    smooth,            \* history: every response so far was success and no failure state was read
    targetState,       \* WaitForTargetProvisionState: the targetState argument
    clients,           \* the Clients value: its flags and configuration
    mux,               \* holder of Clients.ironicMux / inspectorMux (0 when unlocked)
    calls              \* per caller: its Get*Client call in progress and its last return

\* State of the Clients value and of its callers.
clientVars == <<clients, mux, calls>>

vars == <<driver, node, pc, target, cleanSteps, cur,
          attempt, retryNumber, operationStarted, outer, result, ctxDone,
          timedOut, start, tickObs, tickAct, tickCall, tickOpts, issued, seen,
          smooth, targetState, clientVars>>

(***************************************************************************)
(* Bounds of the model.                                                    *)
(***************************************************************************)
\* execute() allows 1000 loop iterations; the model explores this many.
MaxAttempts == 4
\* longest collapsed request history that is recorded
MaxIssued == 5

(***************************************************************************)
(* Program constants.                                                      *)
(***************************************************************************)
maxRetryNumber == 3
\* number of iterations of "for range 5" in the legacy changeProvisionState
MaxTries == 5

(***************************************************************************)
(* Provision states and targets (gophercloud nodes.* values).              *)
(***************************************************************************)
Enroll       == "enroll"
Verifying    == "verifying"
Manageable   == "manageable"
Available    == "available"
Active       == "active"
DeployWait   == "wait call-back"
Deploying    == "deploying"
DeployFail   == "deploy failed"
Deleting     == "deleting"
Cleaning     == "cleaning"
CleanWait    == "clean wait"
CleanFail    == "clean failed"
CleanHold    == "clean hold"
Error        == "error"
Rebuild      == "rebuild"
Inspecting   == "inspecting"
InspectFail  == "inspect failed"
InspectWait  == "inspect wait"
Adopting     == "adopting"
AdoptFail    == "adopt failed"
Rescue       == "rescue"
RescueFail   == "rescue failed"
Rescuing     == "rescuing"
RescueWait   == "rescue wait"
UnrescueFail == "unrescue failed"
Unrescuing   == "unrescuing"
Servicing    == "servicing"
ServiceWait  == "service wait"
ServiceFail  == "service failed"
ServiceHold  == "service hold"

TargetActive   == "active"
TargetDeleted  == "deleted"
TargetManage   == "manage"
TargetProvide  == "provide"
TargetInspect  == "inspect"
TargetAbort    == "abort"
TargetClean    == "clean"
TargetAdopt    == "adopt"
TargetRescue   == "rescue"
TargetUnrescue == "unrescue"
TargetRebuild  == "rebuild"
TargetService  == "service"

\* The provision states the remote service reports.
ProvisionStates ==
    { Enroll, Verifying, Manageable, Inspecting, InspectWait, InspectFail,
      Cleaning, CleanFail, CleanWait, CleanHold, Available, Active, Deploying,
      DeployWait, DeployFail, Deleting, Error, Rebuild, Rescuing, RescueWait,
      Rescue, RescueFail, Unrescuing, UnrescueFail, Adopting, AdoptFail,
      Servicing, ServiceWait, ServiceFail, ServiceHold }

\* The targets a caller passes to ChangeProvisionStateToTarget.
Targets ==
    { TargetManage, TargetProvide, TargetActive, TargetDeleted, TargetClean,
      TargetInspect, TargetRescue, TargetUnrescue, TargetAdopt, TargetAbort }

(***************************************************************************)
(* State/transition model of the table-driven driver (part_005).           *)
(***************************************************************************)
stateTransitions ==
    << <<Enroll, TargetManage, Manageable>>,
       <<Error, TargetDeleted, Deploying>>,
       <<Manageable, TargetManage, Enroll>>,
       <<Manageable, TargetInspect, Inspecting>>,
       <<Manageable, TargetClean, Cleaning>>,
       <<Manageable, TargetAdopt, Adopting>>,
       <<Inspecting, TargetManage, Manageable>>,
       <<Cleaning, TargetProvide, Available>>,
       <<Cleaning, TargetAbort, Manageable>>,
       <<Cleaning, TargetClean, Cleaning>>,
       <<Available, TargetActive, Deploying>>,
       <<Deploying, TargetActive, Active>>,
       <<DeployFail, TargetDeleted, Deleting>>,
       <<Deploying, TargetAbort, DeployFail>>,
       <<Active, TargetDeleted, Deleting>>,
       <<Active, TargetRebuild, Deploying>>,
       <<Active, TargetRescue, Rescuing>>,
       <<Deleting, TargetProvide, Available>>,
       <<Rescuing, TargetRescue, Rescue>>,
       <<Rescue, TargetUnrescue, Unrescuing>>,
       <<Unrescuing, TargetActive, Active>>,
       <<Adopting, TargetManage, Manageable>> >>

\* Indices of the table entries matching (from, tgt), in table order.
matchingTransitions(from, tgt) ==
    { i \in DOMAIN stateTransitions :
        stateTransitions[i][1] = from /\ stateTransitions[i][2] = tgt }

getValidTransitions(from) ==
    { i \in DOMAIN stateTransitions : stateTransitions[i][1] = from }

isValidTransition(from, tgt) == matchingTransitions(from, tgt) # {}

\* The To of the first matching entry; found = FALSE when there is none.
getExpectedState(from, tgt) ==
    LET m == matchingTransitions(from, tgt) IN
    IF m = {} THEN [found |-> FALSE, to |-> ""]
    ELSE LET first == CHOOSE i \in m : \A j \in m : i <= j
         IN [found |-> TRUE, to |-> stateTransitions[first][3]]

\* isTerminalFailureState with clean wait listed in place of clean failed.
isTerminalFailureState_cleanWait(state) ==
    state \in { InspectFail, CleanWait, DeployFail, Error, RescueFail, AdoptFail }

isTerminalFailureState(state) ==
    state \in { InspectFail, CleanFail, DeployFail, Error, RescueFail, AdoptFail }

\* isTransientState with deploying left out of the list.
isTransientState_noDeploying(state) ==
    state \in { Inspecting, Cleaning, Deleting, Rescuing,
                Unrescuing, Adopting, CleanWait }

isTransientState(state) ==
    state \in { Inspecting, Cleaning, Deploying, Deleting, Rescuing,
                Unrescuing, Adopting, CleanWait }

\* checkCompletion whose deleted case accepts available only.
checkCompletion_deletedAvailableOnly(currentState, tgt) ==
    IF isTerminalFailureState(currentState)
    THEN [done |-> TRUE, err |-> "terminal failure state"]
    ELSE CASE tgt = TargetManage   -> [done |-> currentState = Manageable, err |-> ""]
           [] tgt = TargetInspect  -> [done |-> currentState = Manageable, err |-> ""]
           [] tgt = TargetClean    -> [done |-> currentState = Available, err |-> ""]
           [] tgt = TargetProvide  -> [done |-> currentState = Available, err |-> ""]
           [] tgt = TargetActive   -> [done |-> currentState = Active, err |-> ""]
           [] tgt = TargetDeleted  -> [done |-> currentState = Available, err |-> ""]
           [] tgt = TargetRescue   -> [done |-> currentState = Rescue, err |-> ""]
           [] tgt = TargetUnrescue -> [done |-> currentState = Active, err |-> ""]
           [] tgt = TargetAdopt    -> [done |-> currentState = Manageable, err |-> ""]
           [] OTHER                -> [done |-> TRUE, err |-> "unknown target"]

\* checkCompletion: done and the error returned with it ("" for nil).
checkCompletion(currentState, tgt) ==
    IF isTerminalFailureState(currentState)
    THEN [done |-> TRUE, err |-> "terminal failure state"]
    ELSE CASE tgt = TargetManage   -> [done |-> currentState = Manageable, err |-> ""]
           [] tgt = TargetInspect  -> [done |-> currentState = Manageable, err |-> ""]
           [] tgt = TargetClean    -> [done |-> currentState = Available, err |-> ""]
           [] tgt = TargetProvide  -> [done |-> currentState = Available, err |-> ""]
           [] tgt = TargetActive   -> [done |-> currentState = Active, err |-> ""]
           [] tgt = TargetDeleted  ->
                [done |-> currentState = Available \/ currentState = Manageable, err |-> ""]
           [] tgt = TargetRescue   -> [done |-> currentState = Rescue, err |-> ""]
           [] tgt = TargetUnrescue -> [done |-> currentState = Active, err |-> ""]
           [] tgt = TargetAdopt    -> [done |-> currentState = Manageable, err |-> ""]
           [] OTHER                -> [done |-> TRUE, err |-> "unknown target"]

\* determineNextTarget whose active case takes the clean hop from manageable.
determineNextTarget_cleanHop(currentState, tgt) ==
    IF isValidTransition(currentState, tgt) THEN tgt
    ELSE CASE tgt = TargetActive /\ currentState = Enroll      -> TargetManage
           [] tgt = TargetActive /\ currentState = Manageable  -> TargetClean
           [] tgt = TargetActive /\ currentState = Available   -> TargetActive
           [] tgt = TargetProvide /\ currentState = Enroll     -> TargetManage
           [] tgt = TargetProvide /\ currentState = Manageable -> TargetProvide
           [] tgt = TargetDeleted /\ currentState = Active     -> TargetDeleted
           [] tgt = TargetInspect /\ currentState = Enroll     -> TargetManage
           [] tgt = TargetInspect /\ currentState = Manageable -> TargetInspect
           [] tgt = TargetInspect /\ currentState = Available  -> TargetManage
           [] tgt = TargetClean /\ currentState = Enroll       -> TargetManage
           [] tgt = TargetClean /\ currentState = Manageable   -> TargetClean
           [] OTHER -> ""

\* determineNextTarget: the next action, "" when there is none.
determineNextTarget(currentState, tgt) ==
    IF isValidTransition(currentState, tgt) THEN tgt
    ELSE CASE tgt = TargetActive /\ currentState = Enroll      -> TargetManage
           [] tgt = TargetActive /\ currentState = Manageable  -> TargetProvide
           [] tgt = TargetActive /\ currentState = Available   -> TargetActive
           [] tgt = TargetProvide /\ currentState = Enroll     -> TargetManage
           [] tgt = TargetProvide /\ currentState = Manageable -> TargetProvide
           [] tgt = TargetDeleted /\ currentState = Active     -> TargetDeleted
           [] tgt = TargetInspect /\ currentState = Enroll     -> TargetManage
           [] tgt = TargetInspect /\ currentState = Manageable -> TargetInspect
           [] tgt = TargetInspect /\ currentState = Available  -> TargetManage
           [] tgt = TargetClean /\ currentState = Enroll       -> TargetManage
           [] tgt = TargetClean /\ currentState = Manageable   -> TargetClean
           [] OTHER -> ""

\* ValidateProvisionState: "ok" for a nil error.
ValidateProvisionState(state) ==
    IF state \in { Enroll, Manageable, Inspecting, InspectFail, Cleaning,
                   CleanFail, CleanWait, Available, Active, Deploying,
                   DeployFail, Deleting, Error, Rescuing, Rescue, RescueFail,
                   Unrescuing, Adopting, AdoptFail }
    THEN "ok"
    ELSE "invalid provision state"

(***************************************************************************)
(* The classification helpers of the second provisionWorkflow, the one in  *)
(* ironic/workflow.go, which declares its own ProvisionState constants.    *)
(***************************************************************************)
StateDeleteFail == "delete failed"

wfIsTerminalFailureState(state) ==
    state \in { InspectFail, CleanFail, DeployFail, StateDeleteFail, RescueFail,
                AdoptFail }

wfIsTransientState(state) ==
    state \in { Inspecting, Cleaning, Deploying, Deleting, Rescuing,
                Unrescuing, Adopting, CleanWait }

StateRescued == "rescued"

wfStateTransitions ==
    << <<Enroll, TargetManage, Manageable>>,
       <<Manageable, TargetManage, Enroll>>,
       <<Manageable, TargetInspect, Inspecting>>,
       <<Manageable, TargetClean, Cleaning>>,
       <<Manageable, TargetAdopt, Adopting>>,
       <<Inspecting, TargetManage, Manageable>>,
       <<Cleaning, TargetProvide, Available>>,
       <<Cleaning, TargetAbort, Manageable>>,
       <<Cleaning, TargetClean, Cleaning>>,
       <<Available, TargetActive, Deploying>>,
       <<Deploying, TargetActive, Active>>,
       <<DeployFail, TargetDeleted, Deleting>>,
       <<Deploying, TargetAbort, DeployFail>>,
       <<Active, TargetDeleted, Deleting>>,
       <<Active, TargetRebuild, Deploying>>,
       <<Active, TargetRescue, Rescuing>>,
       <<Deleting, TargetProvide, Available>>,
       <<Rescuing, TargetRescue, StateRescued>>,
       <<StateRescued, TargetUnrescue, Unrescuing>>,
       <<Unrescuing, TargetActive, Active>>,
       <<Adopting, TargetManage, Manageable>> >>

wfIsValidTransition(from, tgt) ==
    \E i \in DOMAIN wfStateTransitions :
        wfStateTransitions[i][1] = from /\ wfStateTransitions[i][2] = tgt

wfValidateProvisionState(state) ==
    IF state \in { Enroll, Manageable, Inspecting, InspectFail, Cleaning,
                   CleanFail, CleanWait, Available, Active, Deploying,
                   DeployFail, Deleting, StateDeleteFail, Rescuing,
                   StateRescued, RescueFail, Unrescuing, Adopting, AdoptFail }
    THEN "ok"
    ELSE "invalid provision state"

wfCheckCompletion(currentState, tgt) ==
    IF wfIsTerminalFailureState(currentState)
    THEN [done |-> TRUE, err |-> "terminal failure state"]
    ELSE CASE tgt = TargetManage   -> [done |-> currentState = Manageable, err |-> ""]
           [] tgt = TargetInspect  -> [done |-> currentState = Manageable, err |-> ""]
           [] tgt = TargetClean    -> [done |-> currentState = Available, err |-> ""]
           [] tgt = TargetProvide  -> [done |-> currentState = Available, err |-> ""]
           [] tgt = TargetActive   -> [done |-> currentState = Active, err |-> ""]
           [] tgt = TargetDeleted  ->
                [done |-> currentState = Available \/ currentState = Manageable, err |-> ""]
           [] tgt = TargetRescue   -> [done |-> currentState = StateRescued, err |-> ""]
           [] tgt = TargetUnrescue -> [done |-> currentState = Active, err |-> ""]
           [] tgt = TargetAdopt    -> [done |-> currentState = Manageable, err |-> ""]
           [] OTHER                -> [done |-> TRUE, err |-> "unknown target"]

wfDetermineNextTarget(currentState, tgt) ==
    IF wfIsValidTransition(currentState, tgt) THEN tgt
    ELSE CASE tgt = TargetActive /\ currentState = Enroll      -> TargetManage
           [] tgt = TargetActive /\ currentState = Manageable  -> TargetProvide
           [] tgt = TargetActive /\ currentState = Available   -> TargetActive
           [] tgt = TargetProvide /\ currentState = Enroll     -> TargetManage
           [] tgt = TargetProvide /\ currentState = Manageable -> TargetProvide
           [] tgt = TargetDeleted /\ currentState = Active     -> TargetDeleted
           [] tgt = TargetInspect /\ currentState = Enroll     -> TargetManage
           [] tgt = TargetInspect /\ currentState = Manageable -> TargetInspect
           [] tgt = TargetInspect /\ currentState = Available  -> TargetManage
           [] tgt = TargetClean /\ currentState = Enroll       -> TargetManage
           [] tgt = TargetClean /\ currentState = Manageable   -> TargetClean
           [] OTHER -> ""

\* What one loop iteration of the second execute() decides on reading
\* currentState: return (done, err), or the action it requests ("" for none).
wfDecision(currentState, tgt) ==
    LET c == wfCheckCompletion(currentState, tgt) IN
    IF c.done THEN [done |-> TRUE, err |-> c.err, act |-> ""]
    ELSE IF wfIsTransientState(currentState)
         THEN [done |-> FALSE, err |-> "", act |-> ""]
         ELSE [done |-> FALSE, err |-> "",
               act |-> wfDetermineNextTarget(currentState, tgt)]

(***************************************************************************)
(* The remote service.  API-driven transitions and the automatic ones, as  *)
(* the state diagram summarised in the repository's implementation guide   *)
(* gives them, plus the recovery transitions the legacy driver relies on.  *)
(***************************************************************************)
serverTransitions ==
    { <<Enroll, TargetManage, Verifying>>,
      <<Manageable, TargetProvide, Cleaning>>,
      <<Manageable, TargetInspect, Inspecting>>,
      <<Manageable, TargetClean, Cleaning>>,
      <<Manageable, TargetAdopt, Adopting>>,
      <<Available, TargetActive, Deploying>>,
      <<Available, TargetManage, Manageable>>,
      <<Active, TargetDeleted, Deleting>>,
      <<Active, TargetRebuild, Deploying>>,
      <<Active, TargetRescue, Rescuing>>,
      <<DeployWait, TargetDeleted, Deleting>>,
      <<DeployFail, TargetDeleted, Deleting>>,
      <<Error, TargetDeleted, Deleting>>,
      <<CleanFail, TargetManage, Manageable>>,
      <<InspectFail, TargetManage, Manageable>>,
      <<AdoptFail, TargetManage, Manageable>>,
      <<Rescue, TargetUnrescue, Unrescuing>>,
      <<Rescue, TargetDeleted, Deleting>>,
      <<RescueFail, TargetRescue, Rescuing>>,
      <<RescueFail, TargetUnrescue, Unrescuing>>,
      <<RescueFail, TargetDeleted, Deleting>>,
      <<UnrescueFail, TargetRescue, Rescuing>>,
      <<UnrescueFail, TargetUnrescue, Unrescuing>>,
      <<UnrescueFail, TargetDeleted, Deleting>> }

serverAccepts(state, action) ==
    \E t \in serverTransitions : t[1] = state /\ t[2] = action

\* The state an accepted request puts the node in.
serverApply(state, action) ==
    (CHOOSE t \in serverTransitions : t[1] = state /\ t[2] = action)[3]

\* The states the service may move a node to on its own.
serverAuto(state) ==
    CASE state = Verifying   -> { Manageable, Enroll }
      [] state = Inspecting  -> { Manageable, InspectWait, InspectFail }
      [] state = InspectWait -> { Manageable, InspectFail }
      [] state = Cleaning    -> { Available, Manageable, CleanWait, CleanFail }
      [] state = CleanWait   -> { Cleaning, CleanFail }
      [] state = Deploying   -> { Active, DeployWait, DeployFail }
      [] state = DeployWait  -> { Deploying, Active, DeployFail }
      [] state = Deleting    -> { Cleaning, Available, Error }
      [] state = Rescuing    -> { Rescue, RescueWait, RescueFail }
      [] state = RescueWait  -> { Rescue, RescueFail }
      [] state = Unrescuing  -> { Active, UnrescueFail }
      [] state = Adopting    -> { Active, Manageable, AdoptFail }
      [] state = Servicing   -> { Active, ServiceWait, ServiceFail }
      [] state = ServiceWait -> { Active, ServiceFail }
      [] OTHER -> {}

\* Failure states of the remote service (implementation guide, "Failure States").
serverFailureStates ==
    { InspectFail, CleanFail, DeployFail, RescueFail, UnrescueFail, AdoptFail,
      ServiceFail, Error }

\* Answers of the service to one transition request.
Responses == { "ok", "conflict", "reject" }

(***************************************************************************)
(* History bookkeeping shared by both drivers.                             *)
(***************************************************************************)
\* issued with the action a appended unless it repeats the last entry.
Record(seq, a) ==
    IF a = "" \/ (Len(seq) > 0 /\ seq[Len(seq)] = a) \/ Len(seq) >= MaxIssued
    THEN seq ELSE Append(seq, a)

\* Summary of one changeProvisionState call from the responses it read:
\* requests sent, how many were answered with conflict, and the last answer.
Summary(sent) ==
    [sent |-> Len(sent),
     conflicts |-> Cardinality({ i \in DOMAIN sent : sent[i] = "conflict" }),
     last |-> IF sent = <<>> THEN "" ELSE sent[Len(sent)]]

NoCall == Summary(<<>>)

\* ProvisionStateOpts are recorded by where each field comes from: ConfigDrive
\* and DeploySteps are "unset" or name the argument copied into them,
\* CleanSteps is the list sent ("nil" when unset).
NoOpts == [Target |-> "", ConfigDrive |-> "unset", DeploySteps |-> "unset", CleanSteps |-> "nil"]

Observe(s, st) == IF st \in { Manageable, Available } THEN s \cup { st } ELSE s

NoFrame == [target |-> "", cur |-> "", retryNumber |-> 0, operationStarted |-> FALSE]

(***************************************************************************)
(* Table-driven driver (part_005).                                         *)
(***************************************************************************)
\* changeProvisionState: the ProvisionStateOpts it builds for the request.
provisionStateOpts(tgt, cs) ==
    [Target |-> tgt,
     ConfigDrive |-> IF tgt = TargetActive THEN "configDrive" ELSE "unset",
     DeploySteps |-> IF tgt = TargetActive THEN "deploySteps" ELSE "unset",
     CleanSteps |-> IF tgt = TargetClean
                    THEN (IF cs # "nil" THEN cs ELSE "empty")
                    ELSE "nil"]

\* changeProvisionState: one request, its error returned as is.
changeProvisionState(resp) == IF resp = "ok" THEN "" ELSE "failed to change provision state"

\* takeNextAction: the action requested ("" if none) and the error returned.
takeNextAction(currentState, tgt, resp) ==
    IF isTransientState(currentState) THEN [act |-> "", err |-> ""]
    ELSE LET nextTarget == determineNextTarget(currentState, tgt) IN
         IF nextTarget = "" THEN [act |-> "", err |-> "no valid transition"]
         ELSE [act |-> nextTarget, err |-> changeProvisionState(resp)]

\* execute() treating every error of takeNextAction as fatal.
actionErrorIsFatal_always(err, currentState) == err # ""

\* execute(): the error of takeNextAction ends the run only in a terminal
\* failure state; otherwise it is logged ("Action failed, will retry").
actionErrorIsFatal(err, currentState) ==
    err # "" /\ isTerminalFailureState(currentState)

\* ChangeProvisionStateToTarget: the first read and the "already in the
\* desired final state" check, then execute().
TableInvoke ==
    /\ driver = "table" /\ pc = "start"
    /\ \E readOk \in BOOLEAN :
         /\ ctxDone => ~readOk
         /\ IF ~readOk
            THEN /\ pc' = "done" /\ result' = "failed to get node"
                 /\ UNCHANGED <<cur, seen, smooth>>
            ELSE /\ cur' = node
                 /\ seen' = Observe(seen, node)
                 /\ smooth' = (smooth /\ node \notin serverFailureStates)
                 /\ LET e == getExpectedState(node, target) IN
                    IF e.found /\ node = e.to
                    THEN pc' = "done" /\ result' = "ok"
                    ELSE pc' = "loop" /\ result' = ""
    /\ attempt' = 1
    /\ UNCHANGED <<driver, node, target, cleanSteps, retryNumber, operationStarted,
                   outer, ctxDone, timedOut, start, tickObs, tickAct, tickCall,
                   tickOpts, issued>>
    /\ UNCHANGED <<targetState, clientVars>>

\* execute(): case <-w.ctx.Done()
TableCancelled ==
    /\ driver = "table" /\ pc = "loop" /\ ctxDone
    /\ pc' = "done" /\ result' = "context cancelled"
    /\ UNCHANGED <<driver, node, target, cleanSteps, cur, attempt, retryNumber,
                   operationStarted, outer, ctxDone, timedOut, start,
                   tickObs, tickAct, tickCall,
                   tickOpts, issued, seen, smooth>>
    /\ UNCHANGED <<targetState, clientVars>>

\* execute(): case <-timeout
TableTimeout ==
    /\ driver = "table" /\ pc = "loop" /\ timedOut
    /\ pc' = "done" /\ result' = "timeout"
    /\ UNCHANGED <<driver, node, target, cleanSteps, cur, attempt, retryNumber,
                   operationStarted, outer, ctxDone, timedOut, start,
                   tickObs, tickAct, tickCall,
                   tickOpts, issued, seen, smooth>>
    /\ UNCHANGED <<targetState, clientVars>>

\* The loop returning nil once the attempts are used up.
TableNextAttempt_nilOnExhaustion ==
    /\ attempt' = attempt + 1
    /\ IF attempt + 1 > MaxAttempts
       THEN pc' = "done" /\ result' = "ok"
       ELSE pc' = "loop" /\ result' = ""

\* End of one loop iteration: attempt++ and the loop condition.
TableNextAttempt ==
    /\ attempt' = attempt + 1
    /\ IF attempt + 1 > MaxAttempts
       THEN pc' = "done" /\ result' = "workflow failed after attempts"
       ELSE pc' = "loop" /\ result' = ""

\* execute(): case <-ticker.C, one whole loop iteration.
TableTick ==
    /\ driver = "table" /\ pc = "loop"
    /\ \E readOk \in BOOLEAN, resp \in Responses :
         /\ ctxDone => ~readOk
         /\ IF ~readOk
            THEN /\ TableNextAttempt
                 /\ tickObs' = "" /\ tickAct' = "" /\ tickCall' = NoCall /\ tickOpts' = NoOpts
                 /\ UNCHANGED <<node, cur, issued, seen, smooth>>
            ELSE LET c == checkCompletion(node, target)
                     n == takeNextAction(node, target, resp)
                 IN /\ cur' = node
                    /\ tickObs' = node
                    /\ seen' = Observe(seen, node)
                    /\ IF c.done
                       THEN /\ pc' = "done"
                            /\ result' = (IF c.err = "" THEN "ok" ELSE c.err)
                            /\ tickAct' = "" /\ tickCall' = NoCall /\ tickOpts' = NoOpts
                            /\ smooth' = (smooth /\ node \notin serverFailureStates)
                            /\ UNCHANGED <<node, attempt, issued>>
                       ELSE /\ (resp = "ok" /\ n.act # "") => serverAccepts(node, n.act)
                            /\ (n.act = "" \/ ctxDone) => resp = "reject"
                            /\ tickAct' = n.act
                            /\ tickCall' = (IF n.act = "" THEN NoCall ELSE Summary(<<resp>>))
                            /\ tickOpts' = (IF n.act = "" THEN NoOpts
                                            ELSE provisionStateOpts(n.act, cleanSteps))
                            /\ issued' = Record(issued, n.act)
                            /\ smooth' = (smooth /\ node \notin serverFailureStates
                                                 /\ (n.act # "" => resp = "ok"))
                            /\ node' = (IF n.act # "" /\ resp = "ok"
                                        THEN serverApply(node, n.act) ELSE node)
                            /\ IF actionErrorIsFatal(n.err, node)
                               THEN /\ pc' = "done"
                                    /\ result' = "workflow failed in terminal state"
                                    /\ UNCHANGED attempt
                               ELSE TableNextAttempt
    /\ UNCHANGED <<driver, target, cleanSteps, retryNumber, operationStarted,
                   outer, ctxDone, timedOut, start>>
    /\ UNCHANGED <<targetState, clientVars>>

(***************************************************************************)
(* Legacy driver (ironic/workflow.go, provisionStateWorkflow).             *)
(*                                                                         *)
(* Every to* operator returns what the Go method returns, (done, err),     *)
(* together with the fields it assigns and the requests it sent:           *)
(*   act  - the action of the changeProvisionState call it made, "" if none*)
(*   sent - the responses to the requests of that call, in order           *)
(*   call - TRUE when toClean/toInspect enters the nested manage workflow  *)
(***************************************************************************)
Ret(done, err, act, sent, rn, os) ==
    [done |-> done, err |-> err, act |-> act, sent |-> sent,
     retryNumber |-> rn, operationStarted |-> os, call |-> FALSE]

\* The response sequences one changeProvisionState call can meet: the loop
\* stops reading them at the first success.
RespSeqs ==
    { r \in [1..MaxTries -> Responses] :
        \A i \in 1..MaxTries, j \in 1..MaxTries : (r[i] = "ok" /\ i < j) => r[j] = "ok" }

\* buildProvisionStateOpts: the CleanSteps of the options ("none" when unset).
buildProvisionStateOpts(tgt, cs) ==
    IF tgt = TargetClean
    THEN (IF cs # "nil" THEN cs ELSE "empty")
    ELSE "none"

\* buildProvisionStateOpts: the whole ProvisionStateOpts of a request.
requestOpts(tgt, cs) ==
    [Target |-> tgt,
     ConfigDrive |-> IF tgt = TargetActive THEN "configDrive" ELSE "unset",
     DeploySteps |-> IF tgt = TargetActive THEN "deploySteps" ELSE "unset",
     CleanSteps |-> LET c == buildProvisionStateOpts(tgt, cs)
                    IN IF c = "none" THEN "nil" ELSE c]

\* The "for range 5" loop of changeProvisionState from iteration i on.
RECURSIVE sendLoop(_, _, _)
sendLoop(resps, i, sent) ==
    IF i > MaxTries
    THEN [done |-> FALSE, err |-> "failed to change provision state", sent |-> sent]
    ELSE IF resps[i] # "ok"
         THEN sendLoop(resps, i + 1, Append(sent, resps[i]))
         ELSE [done |-> TRUE, err |-> "", sent |-> Append(sent, resps[i])]

legacyChangeProvisionState(tgt, cs, resps) ==
    IF tgt = TargetClean /\ buildProvisionStateOpts(tgt, cs) = "empty"
    THEN [done |-> TRUE, err |-> "", sent |-> <<>>]
    ELSE sendLoop(resps, 1, <<>>)

\* A changeProvisionState call whose result the caller returns unchanged.
Send(act, rn, os, cs, resps) ==
    LET c == legacyChangeProvisionState(act, cs, resps)
    IN Ret(c.done, c.err, act, c.sent, rn, os)

\* maybeRetry without "workflow.retryNumber--".
maybeRetry_noDecrement(st, rn, os, cs, resps) ==
    IF rn = 0 THEN Ret(TRUE, "retry budget exhausted", "", <<>>, rn, os)
    ELSE IF st = DeployFail
         THEN Send(TargetDeleted, rn, FALSE, cs, resps)
         ELSE Send(TargetManage, rn, FALSE, cs, resps)

maybeRetry(st, rn, os, cs, resps) ==
    IF rn = 0 THEN Ret(TRUE, "retry budget exhausted", "", <<>>, rn, os)
    ELSE IF st = DeployFail
         THEN Send(TargetDeleted, rn - 1, FALSE, cs, resps)
         ELSE Send(TargetManage, rn - 1, FALSE, cs, resps)

toManageable(st, rn, os, cs, resps) ==
    CASE st = Manageable -> Ret(TRUE, "", "", <<>>, rn, os)
      [] st \in { Enroll, Available } -> Send(TargetManage, rn, os, cs, resps)
      [] st \in { AdoptFail, CleanFail, InspectFail } -> maybeRetry(st, rn, os, cs, resps)
      [] st = Verifying -> Ret(FALSE, "", "", <<>>, rn, os)
      [] OTHER -> Ret(TRUE, "cannot go to manageable", "", <<>>, rn, os)

\* "_, err := f(); if err != nil { return true, err }; return false, nil"
DropDone(r) == [r EXCEPT !.done = (r.err # "")]

toAvailable(st, rn, os, cs, resps) ==
    CASE st = Available -> Ret(TRUE, "", "", <<>>, rn, os)
      [] st \in { Cleaning, CleanWait } -> Ret(FALSE, "", "", <<>>, rn, os)
      [] st = Manageable -> Send(TargetProvide, rn, os, cs, resps)
      [] st = DeployFail -> maybeRetry(st, rn, os, cs, resps)
      [] OTHER -> DropDone(toManageable(st, rn, os, cs, resps))

toActive(st, rn, os, cs, resps) ==
    CASE st = Active -> Ret(TRUE, "", "", <<>>, rn, os)
      [] st \in { Deploying, DeployWait } -> Ret(FALSE, "", "", <<>>, rn, os)
      [] st = Available -> Send(TargetActive, rn, os, cs, resps)
      [] OTHER -> DropDone(toAvailable(st, rn, os, cs, resps))

toDeleted(st, rn, os, cs, resps) ==
    CASE st \in { Manageable, Available, Enroll } -> Ret(TRUE, "", "", <<>>, rn, os)
      [] st \in { Cleaning, Deleting } -> Ret(FALSE, "", "", <<>>, rn, os)
      [] st \in { Active, DeployWait, Error } -> Send(TargetDeleted, rn, os, cs, resps)
      [] st = DeployFail -> maybeRetry(st, rn, os, cs, resps)
      [] st \in { InspectFail, CleanFail } -> DropDone(toManageable(st, rn, os, cs, resps))
      [] OTHER -> Ret(TRUE, "cannot delete node", "", <<>>, rn, os)

\* toClean/toInspect from the changeProvisionState call on (operation not yet
\* started, node manageable or the nested manage workflow returned nil).
startOperation(act, rn, os, cs, resps) ==
    LET c == legacyChangeProvisionState(act, cs, resps) IN
    IF c.err # "" THEN Ret(TRUE, c.err, act, c.sent, rn, os)
    ELSE Ret(FALSE, "", act, c.sent, rn, TRUE)

toClean(st, rn, os, cs, resps) ==
    IF ~os
    THEN IF st # Manageable
         THEN [Ret(FALSE, "", "", <<>>, rn, os) EXCEPT !.call = TRUE]
         ELSE startOperation(TargetClean, rn, os, cs, resps)
    ELSE CASE st = Manageable -> Ret(TRUE, "", "", <<>>, rn, os)
           [] st \in { Cleaning, CleanWait } -> Ret(FALSE, "", "", <<>>, rn, os)
           [] st = CleanFail -> maybeRetry(st, rn, os, cs, resps)
           [] OTHER -> Ret(TRUE, "could not clean node", "", <<>>, rn, os)

toInspect(st, rn, os, cs, resps) ==
    IF ~os
    THEN IF st # Manageable
         THEN [Ret(FALSE, "", "", <<>>, rn, os) EXCEPT !.call = TRUE]
         ELSE startOperation(TargetInspect, rn, os, cs, resps)
    ELSE CASE st = Manageable -> Ret(TRUE, "", "", <<>>, rn, os)
           [] st \in { Inspecting, InspectWait } -> Ret(FALSE, "", "", <<>>, rn, os)
           [] st = InspectFail -> maybeRetry(st, rn, os, cs, resps)
           [] OTHER -> Ret(TRUE, "could not inspect node", "", <<>>, rn, os)

\* next(), after the reload: dispatch on workflow.target.
next(tgt, st, rn, os, cs, resps) ==
    CASE tgt = TargetManage  -> toManageable(st, rn, os, cs, resps)
      [] tgt = TargetProvide -> toAvailable(st, rn, os, cs, resps)
      [] tgt = TargetActive  -> toActive(st, rn, os, cs, resps)
      [] tgt = TargetDeleted -> toDeleted(st, rn, os, cs, resps)
      [] tgt = TargetClean   -> toClean(st, rn, os, cs, resps)
      [] tgt = TargetInspect -> toInspect(st, rn, os, cs, resps)
      [] OTHER -> Ret(TRUE, "unknown target state", "", <<>>, rn, os)

\* The action a call requested, "" when it sent nothing.
Requested(r) == IF r.sent = <<>> THEN "" ELSE r.act

Accepted(r) == r.sent # <<>> /\ r.sent[Len(r.sent)] = "ok"

AllReject == [i \in 1..MaxTries |-> "reject"]

\* The response sequences to draw for a call of next() in state st: one
\* representative when the call sends nothing, otherwise every sequence whose
\* unread tail is fixed and whose success the service can give in state st.
Answers(tgt, st, rn, os, cs) ==
    LET probe == next(tgt, st, rn, os, cs, AllReject) IN
    IF probe.sent = <<>> THEN { AllReject }
    ELSE { resps \in RespSeqs : resps[MaxTries] = "ok" => serverAccepts(st, probe.act) }

\* run() returns err: it reloads the node for its last error, and so does
\* every enclosing run() the error is passed up to.
LegacyFail(err, rn, os, curNow) ==
    /\ pc' = "done" /\ result' = err
    /\ outer' = NoFrame
    /\ IF outer = NoFrame
       THEN /\ UNCHANGED target
            /\ retryNumber' = rn /\ operationStarted' = os
            /\ cur' \in { curNow, node }
       ELSE /\ target' = outer.target
            /\ retryNumber' = outer.retryNumber
            /\ operationStarted' = outer.operationStarted
            /\ cur' \in { outer.cur, node }

\* One iteration of run(): next() and what run() does with its result.
LegacyNext ==
    /\ driver = "legacy" /\ pc = "run"
    /\ \E readOk \in BOOLEAN :
         IF ~readOk
         THEN /\ LegacyFail("reload failed", retryNumber, operationStarted, cur)
              /\ tickObs' = "" /\ tickAct' = "" /\ tickCall' = NoCall /\ tickOpts' = NoOpts
              /\ UNCHANGED <<node, issued, seen, smooth>>
         ELSE \E resps \in Answers(target, node, retryNumber, operationStarted, cleanSteps) :
              \E r \in { next(target, node, retryNumber, operationStarted, cleanSteps, resps) } :
                 /\ tickObs' = node
                 /\ tickAct' = Requested(r)
                 /\ tickCall' = Summary(r.sent)
                 /\ tickOpts' = (IF Requested(r) = "" THEN NoOpts
                                 ELSE requestOpts(r.act, cleanSteps))
                 /\ issued' = Record(issued, Requested(r))
                 /\ seen' = Observe(seen, node)
                 /\ smooth' = (smooth /\ node \notin serverFailureStates
                                      /\ \A i \in DOMAIN r.sent : r.sent[i] = "ok")
                 /\ node' = (IF Accepted(r) THEN serverApply(node, r.act) ELSE node)
                 /\ CASE r.call ->
                           /\ outer' = [target |-> target, cur |-> node,
                                        retryNumber |-> r.retryNumber,
                                        operationStarted |-> r.operationStarted]
                           /\ target' = TargetManage
                           /\ cur' = ""
                           /\ retryNumber' = maxRetryNumber
                           /\ operationStarted' = FALSE
                           /\ pc' = "run" /\ result' = ""
                      [] ~r.call /\ r.err # "" ->
                           LegacyFail(r.err, r.retryNumber, r.operationStarted, node)
                      [] ~r.call /\ r.err = "" /\ r.done /\ outer = NoFrame ->
                           /\ pc' = "done" /\ result' = "ok"
                           /\ cur' = node
                           /\ retryNumber' = r.retryNumber
                           /\ operationStarted' = r.operationStarted
                           /\ UNCHANGED <<target, outer>>
                      [] ~r.call /\ r.err = "" /\ r.done /\ outer # NoFrame ->
                           /\ pc' = "returned" /\ result' = ""
                           /\ target' = outer.target
                           /\ cur' = outer.cur
                           /\ retryNumber' = outer.retryNumber
                           /\ operationStarted' = outer.operationStarted
                           /\ outer' = NoFrame
                      [] OTHER ->
                           /\ pc' = "run" /\ result' = ""
                           /\ cur' = node
                           /\ retryNumber' = r.retryNumber
                           /\ operationStarted' = r.operationStarted
                           /\ UNCHANGED <<target, outer>>
    /\ UNCHANGED <<driver, cleanSteps, attempt, ctxDone, timedOut, start>>
    /\ UNCHANGED <<targetState, clientVars>>

AnswersAfterManage(tgt, st, cs) ==
    IF legacyChangeProvisionState(tgt, cs, AllReject).sent = <<>> THEN { AllReject }
    ELSE { resps \in RespSeqs : resps[MaxTries] = "ok" => serverAccepts(st, tgt) }

\* toClean/toInspect after the nested manage workflow returned nil: the
\* clean or inspect request is sent with the node as it was last reloaded by
\* the enclosing workflow.
LegacyAfterManage ==
    /\ driver = "legacy" /\ pc = "returned"
    /\ \E resps \in AnswersAfterManage(target, node, cleanSteps) :
         \E r \in { startOperation(target, retryNumber, operationStarted, cleanSteps, resps) } :
            /\ tickObs' = ""
            /\ tickAct' = Requested(r)
            /\ tickCall' = Summary(r.sent)
            /\ tickOpts' = (IF Requested(r) = "" THEN NoOpts
                            ELSE requestOpts(r.act, cleanSteps))
            /\ issued' = Record(issued, Requested(r))
            /\ smooth' = (smooth /\ \A i \in DOMAIN r.sent : r.sent[i] = "ok")
            /\ node' = (IF Accepted(r) THEN serverApply(node, r.act) ELSE node)
            /\ IF r.err # ""
               THEN LegacyFail(r.err, r.retryNumber, r.operationStarted, cur)
               ELSE /\ pc' = "run" /\ result' = ""
                    /\ retryNumber' = r.retryNumber
                    /\ operationStarted' = r.operationStarted
                    /\ UNCHANGED <<target, cur, outer>>
    /\ UNCHANGED <<driver, cleanSteps, attempt, ctxDone, timedOut, start, seen>>
    /\ UNCHANGED <<targetState, clientVars>>

(***************************************************************************)
(* The environment.                                                        *)
(***************************************************************************)
\* The remote service moves the node out of a transient state.
ServerProgress ==
    /\ pc # "done"
    /\ \E s \in serverAuto(node) : node' = s
    /\ UNCHANGED <<driver, pc, target, cleanSteps, cur, attempt, retryNumber,
                   operationStarted, outer, result, ctxDone, timedOut, start,
                   tickObs, tickAct, tickCall,
                   tickOpts, issued, seen, smooth>>
    /\ UNCHANGED <<targetState, clientVars>>

\* The caller cancels its context.  The legacy driver never stores the
\* context in its workflow, so only the table-driven driver sees it.
CancelContext ==
    /\ pc # "done" /\ ~ctxDone
    /\ ctxDone' = TRUE
    /\ UNCHANGED <<driver, node, pc, target, cleanSteps, cur, attempt, retryNumber,
                   operationStarted, outer, result, timedOut, start,
                   tickObs, tickAct, tickCall,
                   tickOpts, issued, seen, smooth>>
    /\ UNCHANGED <<targetState, clientVars>>

\* execute(): the time.After(maxTimeout) timer fires.
TimerFires ==
    /\ driver = "table" /\ pc = "loop" /\ ~timedOut
    /\ timedOut' = TRUE
    /\ UNCHANGED <<driver, node, pc, target, cleanSteps, cur, attempt, retryNumber,
                   operationStarted, outer, result, ctxDone, start,
                   tickObs, tickAct, tickCall,
                   tickOpts, issued, seen, smooth>>
    /\ UNCHANGED <<targetState, clientVars>>

(***************************************************************************)
(* WaitForTargetProvisionState (part_005; the copy in ironic/workflow.go   *)
(* is the same text).                                                      *)
(***************************************************************************)
\* WaitForTargetProvisionState checking for a terminal failure first.
waitDecision_failureFirst(currentState, tgtState) ==
    IF isTerminalFailureState(currentState) THEN "terminal failure state"
    ELSE IF currentState = tgtState THEN "ok"
    ELSE ""

\* What a successful poll decides: "ok" for return nil, the error returned,
\* or "" to go on polling.
waitDecision(currentState, tgtState) ==
    IF currentState = tgtState THEN "ok"
    ELSE IF isTerminalFailureState(currentState) THEN "terminal failure state"
    ELSE ""

\* case <-ticker.C
WaitPoll ==
    /\ driver = "wait" /\ pc = "poll"
    /\ \E readOk \in BOOLEAN :
         /\ ctxDone => ~readOk
         /\ IF ~readOk
            THEN /\ tickObs' = ""
                 /\ UNCHANGED <<pc, result, cur>>
            ELSE /\ tickObs' = node
                 /\ cur' = node
                 /\ result' = waitDecision(node, targetState)
                 /\ pc' = (IF waitDecision(node, targetState) = "" THEN "poll" ELSE "done")
    /\ UNCHANGED <<driver, node, target, cleanSteps, attempt, retryNumber,
                   operationStarted, outer, ctxDone, timedOut, start, tickAct,
                   tickCall, tickOpts, issued, seen, smooth, targetState,
                   clientVars>>

\* case <-ctx.Done()
WaitCancelled ==
    /\ driver = "wait" /\ pc = "poll" /\ ctxDone
    /\ pc' = "done" /\ result' = "context cancelled"
    /\ UNCHANGED <<driver, node, target, cleanSteps, cur, attempt, retryNumber,
                   operationStarted, outer, ctxDone, timedOut, start, tickObs,
                   tickAct, tickCall, tickOpts, issued, seen, smooth,
                   targetState, clientVars>>

\* case <-timeout
WaitTimeout ==
    /\ driver = "wait" /\ pc = "poll" /\ timedOut
    /\ pc' = "done" /\ result' = "timeout"
    /\ UNCHANGED <<driver, node, target, cleanSteps, cur, attempt, retryNumber,
                   operationStarted, outer, ctxDone, timedOut, start, tickObs,
                   tickAct, tickCall, tickOpts, issued, seen, smooth,
                   targetState, clientVars>>

\* The time.After(maxTimeout) timer of WaitForTargetProvisionState fires.
WaitTimerFires ==
    /\ driver = "wait" /\ pc = "poll" /\ ~timedOut
    /\ timedOut' = TRUE
    /\ UNCHANGED <<driver, node, pc, target, cleanSteps, cur, attempt,
                   retryNumber, operationStarted, outer, result, ctxDone, start,
                   tickObs, tickAct, tickCall, tickOpts, issued, seen, smooth,
                   targetState, clientVars>>

(***************************************************************************)
(* The Clients value (ironic/clients.go; unnamed/part_007 is the later     *)
(* variant without the Inspector client, whose polling goroutine runs      *)
(* healthCheck once).                                                      *)
(***************************************************************************)
\* number of concurrent callers of Get*Client
NumCallers == 2
\* number of Get*Client calls each caller makes
MaxCalls == 2

Callers == 1..NumCallers

NoRet == [api |-> "", client |-> FALSE, err |-> "", polled |-> FALSE, good |-> FALSE]

\* A caller that is not inside a call: n calls made, ret the last return.
Idle(n, ret) ==
    [pc |-> "idle", api |-> "", n |-> n, expired |-> FALSE, check |-> "",
     good |-> FALSE, ret |-> ret]

NoClients ==
    [variant |-> "", timeout |-> 0, inspector |-> FALSE,
     ironicUp |-> FALSE, ironicFailed |-> FALSE,
     inspectorUp |-> FALSE, inspectorFailed |-> FALSE]

NoLocks == [ironic |-> 0, inspector |-> 0]

NoCalls == [c \in Callers |-> Idle(0, NoRet)]

\* The tail of both Get*Client methods: context.WithTimeout and the polling
\* goroutine are started; the caller blocks in select holding the mutex.
StartPolling(c, api) ==
    /\ mux' = [mux EXCEPT ![api] = c]
    /\ calls' = [calls EXCEPT ![c] =
                   [pc |-> "select", api |-> api, n |-> calls[c].n,
                    expired |-> FALSE,
                    check |-> IF clients.variant = "part_007" THEN "healthCheck"
                              ELSE "waitForAPI",
                    good |-> TRUE, ret |-> calls[c].ret]]
    /\ UNCHANGED clients

\* A return of caller c: the deferred Unlock and the values returned.
Return(c, api, client, err, polled, good) ==
    /\ mux' = [mux EXCEPT ![api] = 0]
    /\ calls' = [calls EXCEPT ![c] =
                   Idle(calls[c].n + 1,
                        [api |-> api, client |-> client, err |-> err,
                         polled |-> polled, good |-> good])]

\* GetIronicClient up to the start of the polling: Lock, the two flag checks.
GetIronicClient(c) ==
    /\ calls[c].pc = "idle" /\ calls[c].n < MaxCalls
    /\ mux.ironic = 0
    /\ IF clients.ironicUp \/ clients.timeout = 0
       THEN Return(c, "ironic", TRUE, "", FALSE, FALSE) /\ UNCHANGED clients
       ELSE IF clients.ironicFailed
            THEN /\ Return(c, "ironic", FALSE, "timeout reached", FALSE, FALSE)
                 /\ UNCHANGED clients
            ELSE StartPolling(c, "ironic")

\* GetInspectorClient up to the start of the polling.
GetInspectorClient(c) ==
    /\ clients.variant = "clients.go"
    /\ calls[c].pc = "idle" /\ calls[c].n < MaxCalls
    /\ mux.inspector = 0
    /\ IF ~clients.inspector
       THEN /\ Return(c, "inspector", FALSE, "no inspector endpoint", FALSE, FALSE)
            /\ UNCHANGED clients
       ELSE IF clients.inspectorUp \/ clients.timeout = 0
            THEN Return(c, "inspector", TRUE, "", FALSE, FALSE) /\ UNCHANGED clients
            ELSE IF clients.inspectorFailed
                 THEN /\ Return(c, "inspector", FALSE, "timeout reached", FALSE, FALSE)
                      /\ UNCHANGED clients
                 ELSE StartPolling(c, "inspector")

\* The stage of the polling goroutine that follows stage check of api.
nextCheck(api, check) ==
    IF api = "ironic" /\ check = "waitForAPI" THEN "waitForConductor" ELSE "closed"

\* One step of the polling goroutine of caller c that ends its current
\* stage.  waitForAPI and waitForConductor return when the probe succeeds or
\* when they find the context done; healthCheck runs once, fails when the
\* context is done, and its error is discarded.  After the last stage the
\* goroutine closes the done channel.
PollStep(c) ==
    /\ calls[c].pc = "select"
    /\ calls[c].check \notin { "", "closed" }
    /\ \E up \in BOOLEAN :
         /\ calls[c].check = "healthCheck" => (calls[c].expired => ~up)
         /\ calls[c].check # "healthCheck" => (up = ~calls[c].expired)
         /\ calls' = [calls EXCEPT
                        ![c].check = nextCheck(calls[c].api, calls[c].check),
                        ![c].good = calls[c].good /\ up]
    /\ UNCHANGED <<clients, mux>>

\* The deadline of the context of caller c passes.
ContextDeadline(c) ==
    /\ calls[c].pc = "select" /\ ~calls[c].expired
    /\ calls' = [calls EXCEPT ![c].expired = TRUE]
    /\ UNCHANGED <<clients, mux>>

\* GetIronicClient: the select and everything after it.  When both channels
\* are ready the runtime picks either case; the deadline may also pass
\* between the select and the final ctx.Err().
IronicSelect(c) ==
    /\ calls[c].pc = "select" /\ calls[c].api = "ironic"
    /\ \/ /\ calls[c].expired
          /\ clients' = [clients EXCEPT !.ironicFailed = TRUE]
          /\ Return(c, "ironic", FALSE, "deadline exceeded", TRUE, calls[c].good)
       \/ /\ calls[c].check = "closed"
          /\ clients' = [clients EXCEPT !.ironicUp = TRUE]
          /\ \E late \in BOOLEAN :
               Return(c, "ironic", TRUE,
                      IF calls[c].expired \/ late THEN "deadline exceeded" ELSE "",
                      TRUE, calls[c].good)

\* GetInspectorClient: the select and everything after it.
InspectorSelect(c) ==
    /\ calls[c].pc = "select" /\ calls[c].api = "inspector"
    /\ \/ /\ calls[c].expired
          /\ clients' = [clients EXCEPT !.ironicFailed = TRUE]
          /\ Return(c, "inspector", FALSE, "deadline exceeded", TRUE, calls[c].good)
       \/ /\ calls[c].check = "closed"
          /\ \E late \in BOOLEAN :
               IF calls[c].expired \/ late
               THEN /\ clients' = [clients EXCEPT !.inspectorFailed = TRUE]
                    /\ Return(c, "inspector", FALSE, "deadline exceeded", TRUE,
                              calls[c].good)
               ELSE /\ clients' = [clients EXCEPT !.inspectorUp = TRUE]
                    /\ Return(c, "inspector", TRUE, "", TRUE, calls[c].good)

\* Everything the drivers and the waiter own.
driverVars ==
    <<driver, node, pc, target, cleanSteps, cur, attempt, retryNumber,
      operationStarted, outer, result, ctxDone, timedOut, start, tickObs,
      tickAct, tickCall, tickOpts, issued, seen, smooth, targetState>>

GetIronic == \E c \in Callers : GetIronicClient(c) /\ UNCHANGED driverVars

GetInspector == \E c \in Callers : GetInspectorClient(c) /\ UNCHANGED driverVars

Poll == \E c \in Callers : PollStep(c) /\ UNCHANGED driverVars

Deadline == \E c \in Callers : ContextDeadline(c) /\ UNCHANGED driverVars

SelectIronic == \E c \in Callers : IronicSelect(c) /\ UNCHANGED driverVars

SelectInspector == \E c \in Callers : InspectorSelect(c) /\ UNCHANGED driverVars

(***************************************************************************)
(* Specification.                                                          *)
(***************************************************************************)
\* The callers pass clean steps only with the clean target.
CallerCleanSteps(tgt) ==
    IF tgt = TargetClean THEN { "nil", "empty", "steps" } ELSE { "nil" }

Init ==
    /\ driver \in { "legacy", "table" }
    /\ node \in ProvisionStates
    /\ start = node
    /\ target \in Targets
    /\ cleanSteps \in CallerCleanSteps(target)
    /\ pc = (IF driver = "legacy" THEN "run" ELSE "start")
    /\ cur = ""
    /\ attempt = 0
    /\ retryNumber = (IF driver = "legacy" THEN maxRetryNumber ELSE 0)
    /\ operationStarted = FALSE
    /\ outer = NoFrame
    /\ result = ""
    /\ ctxDone = FALSE
    /\ timedOut = FALSE
    /\ tickObs = "" /\ tickAct = "" /\ tickCall = NoCall /\ tickOpts = NoOpts
    /\ issued = <<>>
    /\ seen = {}
    /\ smooth = TRUE
    /\ targetState = ""
    /\ clients = NoClients /\ mux = NoLocks /\ calls = NoCalls

DriverStep ==
    \/ TableInvoke
    \/ TableCancelled
    \/ TableTimeout
    \/ TableTick
    \/ LegacyNext
    \/ LegacyAfterManage

Next ==
    \/ TableInvoke
    \/ TableCancelled
    \/ TableTimeout
    \/ TableTick
    \/ LegacyNext
    \/ LegacyAfterManage
    \/ ServerProgress
    \/ CancelContext
    \/ TimerFires

Spec == Init /\ [][Next]_vars

\* The driver's goroutine is scheduled whenever it can take a step; the
\* remote service is under no obligation to move the node.
FairSpec == Spec /\ WF_vars(DriverStep)

TypeOK ==
    /\ driver \in { "legacy", "table" }
    /\ node \in ProvisionStates
    /\ pc \in { "start", "loop", "run", "returned", "done" }
    /\ target \in Targets
    /\ cur \in ProvisionStates \cup { "" }
    /\ attempt \in 0..(MaxAttempts + 1)
    /\ retryNumber \in 0..maxRetryNumber
    /\ operationStarted \in BOOLEAN
    /\ Len(issued) <= MaxIssued
    /\ (pc = "done") = (result # "")

(***************************************************************************)
(* Specification of a call of WaitForTargetProvisionState.                 *)
(***************************************************************************)
WaitInit ==
    /\ driver = "wait"
    /\ node \in ProvisionStates
    /\ start = node
    /\ targetState \in ProvisionStates
    /\ pc = "poll"
    /\ target = "" /\ cleanSteps = "nil" /\ cur = ""
    /\ attempt = 0 /\ retryNumber = 0 /\ operationStarted = FALSE
    /\ outer = NoFrame
    /\ result = ""
    /\ ctxDone = FALSE
    /\ timedOut = FALSE
    /\ tickObs = "" /\ tickAct = "" /\ tickCall = NoCall /\ tickOpts = NoOpts
    /\ issued = <<>>
    /\ seen = {}
    /\ smooth = TRUE
    /\ clients = NoClients /\ mux = NoLocks /\ calls = NoCalls

WaitNext ==
    \/ WaitPoll
    \/ WaitCancelled
    \/ WaitTimeout
    \/ WaitTimerFires
    \/ ServerProgress
    \/ CancelContext

WaitSpec == WaitInit /\ [][WaitNext]_vars

(***************************************************************************)
(* Specification of the callers of one Clients value.                      *)
(***************************************************************************)
ClientsInit ==
    /\ driver = "clients"
    /\ node = Enroll /\ start = Enroll
    /\ targetState = ""
    /\ pc = "idle"
    /\ target = "" /\ cleanSteps = "nil" /\ cur = ""
    /\ attempt = 0 /\ retryNumber = 0 /\ operationStarted = FALSE
    /\ outer = NoFrame
    /\ result = ""
    /\ ctxDone = FALSE
    /\ timedOut = FALSE
    /\ tickObs = "" /\ tickAct = "" /\ tickCall = NoCall /\ tickOpts = NoOpts
    /\ issued = <<>>
    /\ seen = {}
    /\ smooth = TRUE
    /\ \E variant \in { "clients.go", "part_007" }, timeout \in { 0, 60 },
          inspector \in BOOLEAN :
         /\ variant = "part_007" => ~inspector
         /\ clients = [NoClients EXCEPT !.variant = variant,
                                        !.timeout = timeout,
                                        !.inspector = inspector]
    /\ mux = NoLocks
    /\ calls = NoCalls

ClientsNext ==
    \/ GetIronic
    \/ GetInspector
    \/ Poll
    \/ Deadline
    \/ SelectIronic
    \/ SelectInspector

ClientsSpec == ClientsInit /\ [][ClientsNext]_vars

(***************************************************************************)
(* Properties.                                                             *)
(***************************************************************************)
Range(seq) == { seq[i] : i \in DOMAIN seq }

IsPrefix(s, t) == Len(s) <= Len(t) /\ \A i \in DOMAIN s : s[i] = t[i]

\* The state in which a target is reached, as the interface describes it.
CompletionStates(tgt) ==
    CASE tgt \in { TargetManage, TargetInspect, TargetAdopt } -> { Manageable }
      [] tgt \in { TargetProvide, TargetClean }               -> { Available }
      [] tgt \in { TargetActive, TargetUnrescue }             -> { Active }
      [] tgt = TargetDeleted                                  -> { Available, Manageable }
      [] tgt = TargetRescue                                   -> { Rescue }
      [] OTHER                                                -> {}

\* The same for the legacy driver, whose clean and inspect targets are
\* reached only once the operation was started.
LegacySatisfies(tgt, st, started) ==
    CASE tgt = TargetManage  -> st = Manageable
      [] tgt = TargetProvide -> st = Available
      [] tgt = TargetActive  -> st = Active
      [] tgt = TargetDeleted -> st \in { Manageable, Available, Enroll }
      [] tgt \in { TargetClean, TargetInspect } -> st = Manageable /\ started
      [] OTHER -> FALSE

\* Errors that come from the environment rather than from planning.
EnvironmentErrors ==
    { "failed to get node", "reload failed", "context cancelled", "timeout",
      "workflow failed after attempts" }

\* C1: in the table-driven driver every requested action is legal, per the
\* driver's own transition table, from the state it was planned in.
C1_PlannedActionIsLegal ==
    (driver = "table" /\ tickAct # "") => isValidTransition(tickObs, tickAct)

\* C2: the legacy driver returns nil only when the state of its last reload
\* satisfies the target; an accepted request alone does not end the run.
C2_LegacyNilOnlyAtGoal ==
    (driver = "legacy" /\ result = "ok") =>
        LegacySatisfies(target, cur, operationStarted)

\* C3: the table-driven driver returns nil only when the most recently
\* observed state is the completion state of the target, never in a
\* transient state.
C3_TableNilOnlyAtCompletion ==
    (driver = "table" /\ result = "ok") => cur \in CompletionStates(target)

\* The planner has nothing to do in state st although the run is not over.
NoPlan(st, tgt) ==
    /\ ~checkCompletion(st, tgt).done
    /\ ~isTransientState(st)
    /\ ~isTerminalFailureState(st)
    /\ determineNextTarget(st, tgt) = ""

\* C4: a tick that finds no action for a state that is neither goal,
\* transient nor terminal failure ends the run with the fatal 'no valid
\* transition' error instead of polling on.
C4_NoValidTransitionIsFatal ==
    (driver = "table" /\ tickObs # "" /\ NoPlan(tickObs, target)) =>
        (pc = "done" /\ result = "no valid transition" /\ tickAct = "")

\* The node was in the stable completion state of the target when
\* ChangeProvisionStateToTarget was invoked.
StartedAtGoal ==
    IF driver = "table" THEN start \in CompletionStates(target)
    ELSE LegacySatisfies(target, start, FALSE)

C6_LegacyRunReturns == (driver = "legacy") ~> (pc = "done")

\* C7: a tick that observes deploy failed with target active issues the
\* recovery request deleted (while recovery budget remains), and no active
\* request.
C7_RecoveryHopIssued ==
    (tickObs = DeployFail /\ target = TargetActive
        /\ result # "retry budget exhausted") => tickAct = TargetDeleted

\* C8: from enroll with target active, against a service that accepts every
\* request and never fails the node, the actions issued are manage, provide,
\* active in this order (repeats collapsed) and nothing else; provide only
\* after manageable was observed, active only after available was observed.
C8_EnrollToActiveOrder ==
    (start = Enroll /\ target = TargetActive /\ smooth) =>
        /\ IsPrefix(issued, <<TargetManage, TargetProvide, TargetActive>>)
        /\ (TargetProvide \in Range(issued) => Manageable \in seen)
        /\ (TargetActive \in Range(issued) => Available \in seen)
        /\ (result = "ok" => issued = <<TargetManage, TargetProvide, TargetActive>>)

C8_Witness ==
    /\ driver = "table" /\ start = Enroll /\ target = TargetActive /\ smooth
    /\ result = "ok" /\ cur = Active
    /\ issued = <<TargetManage, TargetProvide, TargetActive>>

\* C9: with target active the table-driven driver requests active on a tick
\* that observes available, requests nothing and raises no error on a tick
\* that observes deploying, and returns success on the tick that observes
\* active; from available, against a service that does not fail, no planning
\* error ends the run.
C9_HappyPathDeploy ==
    (driver = "table" /\ target = TargetActive) =>
        /\ (tickObs = Available => tickAct = TargetActive)
        /\ (tickObs = Deploying =>
               tickAct = "" /\ result \in { "" } \cup EnvironmentErrors)
        /\ (tickObs = Active => result = "ok" /\ tickAct = "")
        /\ ((start = Available /\ smooth) =>
               result \in { "", "ok" } \cup EnvironmentErrors)

C9_Witness ==
    /\ driver = "table" /\ start = Available /\ target = TargetActive /\ smooth
    /\ attempt >= 3 /\ tickObs = Active /\ result = "ok"
    /\ issued = <<TargetActive>>

\* C10: a changeProvisionState call gives up on a conflict answer only after
\* its fifth request: until then the same request is sent again.
C10_ConflictRetriedFiveTimes ==
    tickCall.last = "conflict" => tickCall.sent = 5

\* C11: once the caller's context is cancelled the driver sends no further
\* transition request: a step taken after the cancellation that runs a
\* changeProvisionState call sends nothing.
C11_NoRequestAfterCancel ==
    [][(ctxDone /\ tickCall' # tickCall) => tickCall'.sent = 0]_vars

\* The failure states the legacy driver answers with maybeRetry.
RecoverableFailures == { DeployFail, CleanFail, InspectFail, AdoptFail }

\* C12: the recovery budget of the legacy driver.  retryNumber stays within
\* 0..3; a tick that observes a recoverable failure state and sends a request
\* consumes exactly one unit; a tick that observes one with the budget at 0
\* sends nothing and ends the run with an error; and a nested manage workflow
\* never runs on after a recovery, so its fresh budget is used at most once.
C12_RecoveryBudgetEnforced ==
    [][/\ driver = "legacy" => retryNumber' \in 0..maxRetryNumber
       /\ outer' # NoFrame => retryNumber' = maxRetryNumber
       /\ (driver = "legacy" /\ pc = "run" /\ ctxDone' = ctxDone
              /\ node \in RecoverableFailures) =>
            /\ (outer = NoFrame /\ tickCall'.sent > 0)
                  => retryNumber' = retryNumber - 1
            /\ retryNumber = 0
                  => (pc' = "done" /\ result' \notin { "", "ok" }
                        /\ tickCall'.sent = 0)]_vars

C12_Witness ==
    /\ driver = "legacy" /\ target = TargetActive /\ tickObs = CleanFail
    /\ retryNumber = 0 /\ result = "retry budget exhausted" /\ tickAct = ""

\* The states the remote service leaves on its own, as the interface lists
\* them: the working states and their wait counterparts.
AutoProgressing ==
    { Deploying, Cleaning, CleanWait, Deleting, Inspecting, Rescuing,
      Unrescuing, Adopting, DeployWait, InspectWait, RescueWait, ServiceWait }

\* C13: a tick that observes a state the remote service leaves on its own
\* only polls, whatever the target: it sends no transition request and the
\* run does not end with a planning error (nor with success) on it.
C13_TransientOnlyPolls ==
    tickObs \in AutoProgressing =>
        (tickAct = "" /\ result \in { "" } \cup EnvironmentErrors)

\* The payload the interface prescribes for a request with action act.
PayloadFor(act) ==
    [Target |-> act,
     ConfigDrive |-> IF act = TargetActive THEN "configDrive" ELSE "unset",
     DeploySteps |-> IF act = TargetActive THEN "deploySteps" ELSE "unset",
     CleanSteps |-> IF act = TargetClean
                    THEN (IF cleanSteps = "nil" THEN "empty" ELSE cleanSteps)
                    ELSE "nil"]

\* C14: the payload of a request is chosen by its action: config drive and
\* deploy steps exactly on active, clean steps (the supplied list, or the
\* empty list) exactly on clean, nothing on any other action; and a tick
\* that finds the node manageable with the clean operation still to start
\* sends the clean request, also when no clean steps were supplied.
C14_PayloadByAction ==
    /\ tickAct # "" => tickOpts = PayloadFor(tickAct)
    /\ (target = TargetClean /\ tickObs = Manageable /\ result # "ok")
          => tickAct = TargetClean

\* C15: a failed read of the node state never ends a run, whichever read of
\* the invocation it is: no run returns the error of a failed read.
C15_FailedReadIsNotFatal ==
    result \notin { "failed to get node", "reload failed" }

\* Requests of the last changeProvisionState call that were answered with an
\* error other than a conflict.
Rejections(call) ==
    call.sent - call.conflicts - (IF call.last = "ok" THEN 1 ELSE 0)

\* C16: a request answered with a non-conflict error is not sent again within
\* the same changeProvisionState call: a call meets at most one such answer
\* and it is the last answer the call reads.
C16_RejectionSentOnce ==
    Rejections(tickCall) > 0 =>
        (Rejections(tickCall) = 1 /\ tickCall.last = "reject")

C18_ReadBetweenRequests ==
    [][(tickAct # "" /\ tickAct' # "" /\ tickAct' # tickAct) => tickObs' # ""]_vars

\* C19: no provision state is classified both as a terminal failure and as
\* transient, by either pair of classification helpers.
C19_ClassificationsDisjoint ==
    /\ ~(isTerminalFailureState(node) /\ isTransientState(node))
    /\ \A s \in { node, StateDeleteFail } :
          ~(wfIsTerminalFailureState(s) /\ wfIsTransientState(s))

C19_Witness ==
    /\ driver = "table" /\ tickObs = CleanWait /\ node = CleanFail
    /\ isTransientState(tickObs) /\ isTerminalFailureState(node)
    /\ tickAct = "" /\ result = ""

\* The failure states of the interface.
TerminalFailures ==
    { InspectFail, CleanFail, DeployFail, Error, RescueFail, UnrescueFail,
      AdoptFail, ServiceFail }

\* C20: isTerminalFailureState is true exactly for inspect failed, clean
\* failed, deploy failed, error, rescue failed, unrescue failed, adopt failed
\* and service failed, whatever state a tick reads.
C20_TerminalFailureStates ==
    (driver = "table" /\ tickObs # "") =>
        (isTerminalFailureState(tickObs) <=> tickObs \in TerminalFailures)

\* The states the remote service leaves on its own.
SelfLeaving ==
    { Verifying, Inspecting, InspectWait, Cleaning, CleanWait, Deploying,
      DeployWait, Deleting, Rescuing, RescueWait, Unrescuing, Adopting,
      Servicing, ServiceWait }

\* C21: isTransientState is true for every state the remote service leaves
\* on its own and false for active, available, manageable and error, whatever
\* state a tick reads.
C21_TransientStates ==
    (driver = "table" /\ tickObs # "") =>
        /\ tickObs \in SelfLeaving => isTransientState(tickObs)
        /\ tickObs \in { Active, Available, Manageable, Error }
              => ~isTransientState(tickObs)

\* Strings that name no provision state.
OtherStrings == { "invalid", "unknown", "not-a-state", "", "Active" }

\* C22: ValidateProvisionState returns nil for the provision state a run has
\* read from the remote service, whichever of the 30 it is, and an error for
\* every other string.
C22_ValidateProvisionState ==
    /\ tickObs \in ProvisionStates => ValidateProvisionState(tickObs) = "ok"
    /\ \A str \in OtherStrings : ValidateProvisionState(str) # "ok"

\* The transitions of the remote service's state diagram that the table has
\* to contain, and the pairs it must not contain.
DiagramLegal ==
    { <<Enroll, TargetManage, Verifying>>,
      <<Verifying, TargetManage, Manageable>>,
      <<Active, TargetService, Servicing>>,
      <<Error, TargetDeleted, Deleting>> }

DiagramLegalPairs ==
    { <<Available, TargetManage>>, <<RescueFail, TargetRescue>>,
      <<ServiceFail, TargetService>>, <<ServiceFail, TargetRescue>> }

DiagramIllegalPairs == { <<Active, TargetInspect>>, <<Enroll, TargetActive>> }

\* C23: for the state a table-driven tick read and the target of the run,
\* isValidTransition and getExpectedState agree (found exactly when valid)
\* and answer as the remote service's state diagram does.
C23_TableMirrorsDiagram ==
    (driver = "table" /\ tickObs # "") =>
        /\ isValidTransition(tickObs, target)
              <=> getExpectedState(tickObs, target).found
        /\ \A tr \in DiagramLegal :
              (tr[1] = tickObs /\ tr[2] = target) =>
                  getExpectedState(tickObs, target)
                      = [found |-> TRUE, to |-> tr[3]]
        /\ <<tickObs, target>> \in DiagramLegalPairs
              => isValidTransition(tickObs, target)
        /\ <<tickObs, target>> \in DiagramIllegalPairs
              => /\ ~isValidTransition(tickObs, target)
                 /\ ~getExpectedState(tickObs, target).found

\* C24: table completeness: a state a table-driven tick read that
\* ValidateProvisionState accepts has at least one table entry unless it is a
\* terminal failure state.
C24_TableComplete ==
    (/\ driver = "table"
     /\ tickObs # ""
     /\ ValidateProvisionState(tickObs) = "ok"
     /\ ~isTerminalFailureState(tickObs)) => getValidTransitions(tickObs) # {}

\* execute() has returned (the run did not end in the first read or in the
\* "already in the desired final state" check before it).
ExecuteReturned ==
    /\ driver = "table" /\ pc = "done"
    /\ result # "failed to get node"
    /\ ~(result = "ok" /\ tickObs = "")

\* The last loop iteration read the completion state of the target, or a
\* terminal failure state.
DecisiveRead ==
    /\ tickObs # ""
    /\ \/ tickObs \in CompletionStates(target)
       \/ tickObs \in { InspectFail, CleanFail, DeployFail, Error, RescueFail,
                        AdoptFail }

\* C25, as stated: the loop variable never exceeds the bound by more than
\* the final increment, and a run of execute() that ends without having read
\* completion or a terminal failure returns a timeout or attempts-exhausted
\* error.
C25_ExhaustionOrTimeoutOnly ==
    driver = "table" =>
        /\ attempt <= MaxAttempts + 1
        /\ (ExecuteReturned /\ ~DecisiveRead)
              => result \in { "timeout", "workflow failed after attempts" }

\* C25, amended: the loop body runs only while attempt <= maxAttempts, every
\* iteration sends at most one request and either ends the run or increments
\* attempt (a failed read included), and a run of execute() that ends without
\* having read completion or a terminal failure returns a cancellation,
\* timeout, attempts-exhausted or unknown-target error, never nil.
C25_LoopBounded ==
    [][driver = "table" =>
         /\ pc = "loop" => attempt \in 1..MaxAttempts
         /\ attempt' >= attempt /\ attempt' <= MaxAttempts + 1
         /\ tickCall'.sent <= 1
         /\ (tickCall' # tickCall \/ tickAct' # tickAct \/ issued' # issued
               \/ tickObs' # tickObs)
              => (pc = "loop" /\ (attempt' = attempt + 1 \/ pc' = "done"))
         /\ (pc = "loop" /\ attempt = MaxAttempts /\ attempt' # attempt)
              => (pc' = "done" /\ result' = "workflow failed after attempts")
         /\ (ExecuteReturned' /\ ~DecisiveRead')
              => result' \in { "context cancelled", "timeout",
                               "workflow failed after attempts",
                               "unknown target" }]_vars

C25_Witness ==
    /\ driver = "table" /\ pc = "done"
    /\ attempt = MaxAttempts + 1
    /\ result = "workflow failed after attempts"
    /\ tickAct # "" /\ tickCall.sent = 1
    /\ ~DecisiveRead

\* The constant of the second copy that stands for a state of the first.
wfName(state) ==
    CASE state = Error  -> StateDeleteFail
      [] state = Rescue -> StateRescued
      [] OTHER          -> state

\* What one loop iteration of the first execute() decides on reading
\* currentState, in the terms of wfDecision.
tableDecision(currentState, tgt) ==
    LET c == checkCompletion(currentState, tgt) IN
    IF c.done THEN [done |-> TRUE, err |-> c.err, act |-> ""]
    ELSE [done |-> FALSE, err |-> "",
          act |-> takeNextAction(currentState, tgt, "ok").act]

\* C26: for the state a table-driven tick read, the two copies of the state
\* model agree once the state names are matched: the same table entries from
\* that state, the same terminal-failure, transient and validity answers, and
\* the same decision for the target of the run.
C26_CopiesEquivalent ==
    (driver = "table" /\ tickObs # "") =>
        /\ { <<wfName(stateTransitions[i][1]), stateTransitions[i][2],
                wfName(stateTransitions[i][3])>> : i \in getValidTransitions(tickObs) }
             = { wfStateTransitions[i] : i \in
                   { j \in DOMAIN wfStateTransitions :
                       wfStateTransitions[j][1] = wfName(tickObs) } }
        /\ isTerminalFailureState(tickObs) <=> wfIsTerminalFailureState(wfName(tickObs))
        /\ isTransientState(tickObs) <=> wfIsTransientState(wfName(tickObs))
        /\ ValidateProvisionState(tickObs) = wfValidateProvisionState(wfName(tickObs))
        /\ tableDecision(tickObs, target) = wfDecision(wfName(tickObs), target)

\* C27: for the targets inspect, clean and adopt the table-driven driver
\* returns nil only after it has requested that action during the
\* invocation; started with target inspect on a manageable node, it requests
\* inspect unless the environment ends the run first.
C27_OperationRequestedBeforeSuccess ==
    driver = "table" =>
        /\ (result = "ok" /\ target \in { TargetInspect, TargetClean, TargetAdopt })
              => target \in Range(issued)
        /\ (/\ target = TargetInspect /\ start = Manageable
            /\ pc = "done" /\ result \notin EnvironmentErrors)
              => TargetInspect \in Range(issued)

\* C28: WaitForTargetProvisionState never sends a request (the node moves
\* only as the remote service moves it); it has returned nil exactly when
\* its last poll read targetState, also when that is a failure state; it has
\* returned the failure error exactly when its last poll read a terminal
\* failure state other than targetState; while it polls, no poll has read
\* either; every other return is the cancellation or timeout error, after
\* the context was cancelled or the timer fired.
C28_WaitIsReadOnlyAndDecisive ==
    [][driver = "wait" =>
         /\ node' # node => (node' \in serverAuto(node) /\ pc' = pc)
         /\ tickAct' = "" /\ tickCall' = NoCall /\ issued' = <<>>
         /\ result' = "ok" <=> (pc' = "done" /\ tickObs' = targetState)
         /\ result' = "terminal failure state"
              <=> (/\ pc' = "done" /\ tickObs' # "" /\ tickObs' # targetState
                   /\ isTerminalFailureState(tickObs'))
         /\ pc' = "poll" =>
              \/ tickObs' = ""
              \/ tickObs' # targetState /\ ~isTerminalFailureState(tickObs')
         /\ result' = "context cancelled" => (ctxDone' /\ pc = "poll")
         /\ result' = "timeout" => (timedOut' /\ pc = "poll")
         /\ result' \in { "", "ok", "terminal failure state",
                          "context cancelled", "timeout" }]_vars

C28_Witness ==
    /\ driver = "wait" /\ pc = "done"
    /\ start = Deleting /\ targetState = Error
    /\ tickObs = Error /\ node = Error
    /\ result = "ok"
    /\ timedOut

\* Caller c returns, in this step, from a call of api that polled.
ReturnsFromPolling(c, api) ==
    calls[c].pc = "select" /\ calls[c].api = api /\ calls'[c].pc = "idle"

\* Caller c makes, in this step, a call of api that returns without polling.
ReturnsAtOnce(c, api) ==
    /\ calls[c].pc = "idle" /\ calls'[c].pc = "idle"
    /\ calls'[c].n = calls[c].n + 1 /\ calls'[c].ret.api = api

\* C29: the availability flags of the two clients are independent: a
\* GetInspectorClient call that polled, whether it timed out or not, leaves
\* ironicUp and ironicFailed as they were, and a GetIronicClient call that
\* polled leaves inspectorUp and inspectorFailed as they were.
C29_ClientFlagsIndependent ==
    [][\A c \in Callers :
         /\ ReturnsFromPolling(c, "inspector") =>
              /\ clients'.ironicUp = clients.ironicUp
              /\ clients'.ironicFailed = clients.ironicFailed
         /\ ReturnsFromPolling(c, "ironic") =>
              /\ clients'.inspectorUp = clients.inspectorUp
              /\ clients'.inspectorFailed = clients.inspectorFailed]_vars

\* C30: with a non-zero timeout, a GetIronicClient call that polled sets
\* ironicUp and returns the client with a nil error only if its availability
\* check succeeded before the deadline, and otherwise sets ironicFailed and
\* returns an error; the two flags are never both set; once a flag is set a
\* later call returns at once, the client with a nil error under ironicUp
\* and an error under ironicFailed.
C30_IronicUpOnlyAfterSuccess ==
    [][\A c \in Callers :
         /\ ReturnsFromPolling(c, "ironic") =>
              /\ clients'.ironicUp =>
                    (/\ calls'[c].ret.good
                     /\ calls'[c].ret.client /\ calls'[c].ret.err = "")
              /\ (calls'[c].ret.client /\ calls'[c].ret.err = "")
                    => calls'[c].ret.good
              /\ ~calls'[c].ret.good =>
                    (clients'.ironicFailed /\ calls'[c].ret.err # "")
         /\ ~(clients'.ironicUp /\ clients'.ironicFailed)
         /\ (/\ calls[c].pc = "idle" /\ calls'[c].n # calls[c].n
             /\ calls'[c].ret.api = "ironic"
             /\ clients.timeout # 0
             /\ clients.ironicUp \/ clients.ironicFailed) =>
              /\ ReturnsAtOnce(c, "ironic")
              /\ clients.ironicUp =>
                    (calls'[c].ret.client /\ calls'[c].ret.err = "")
              /\ ~clients.ironicUp => calls'[c].ret.err # ""]_vars

====
